---- MODULE Spec2Model ----
(***************************************************************************)
(* Lidar odometry core of open3d_slam (LidarOdometry in Odometry.cpp) and  *)
(* the voxel helpers of m545_volumetric_mapping (helpers.cpp).             *)
(*                                                                         *)
(* Abstractions of the external geometry library:                          *)
(*   - a point cloud is the set of its points; IsEmpty() is "= {}";        *)
(*   - a rigid transform is an element of the dihedral group D3, a finite  *)
(*     non-commutative subgroup of the rotations, written as the           *)
(*     permutation of the three in-plane axes it induces;                  *)
(*   - crop / voxelize / RandomDownSample / estimateNormals produce a      *)
(*     cloud with no more points than their input (chosen by \E);          *)
(*   - RegistrationICP returns a fitness on the scale 0..MaxFitness and a  *)
(*     transformation (chosen by \E); an empty target has no               *)
(*     correspondences, hence fitness 0.                                   *)
(***************************************************************************)
EXTENDS Integers, Sequences, FiniteSets, TLC

VARIABLES
    cloudPrev_,                    \* LidarOdometry::cloudPrev_
    odomToRangeSensorCumulative_,  \* LidarOdometry::odomToRangeSensorCumulative_
    odomToRangeSensorBuffer_,      \* LidarOdometry::odomToRangeSensorBuffer_
    lastMeasurementTimestamp_,     \* LidarOdometry::lastMeasurementTimestamp_
    isMapInitializing_,            \* LidarOdometry::isMapInitializing_
    scanToScanOdomTools_,          \* LidarOdometry::scanToScanOdomTools_
    mapInitializingOdomTools_,     \* LidarOdometry::mapInitializingOdomTools_
    call,                          \* the last call made on the object, its inputs and its return value
    prevCall,                      \* history: timestamp of the addRangeScan call before `call`
    returnedTrue,                  \* history: number of addRangeScan calls that returned true
    pc,                            \* position of the voxelizeAroundPosition call
    voxel_size,                    \* voxelizeAroundPosition: argument voxel_size
    bbox,                          \* voxelizeAroundPosition: argument bbox
    cloud_points_,                 \* voxelizeAroundPosition: cloud.points_
    output_points_,                \* voxelizeAroundPosition: output->points_
    pclVoxelSize,                     \* voxelize: argument pclVoxelSize
    pcl,                           \* voxelize: pcl->points_
    pclSizes,                      \* history: size of pcl before the first call and after each call
    reference_points_,             \* computePointCloudDistance: reference.points_
    kdtree,                        \* computePointCloudDistance: kdtree, built from cloud
    idsInReference,                \* computePointCloudDistance: argument idsInReference
    distances,                     \* computePointCloudDistance: distances
    indices,                       \* computePointCloudDistance: indices
    iter,                          \* position and locals (idx, ids, dists) of each loop iteration
    accesses,                      \* history: the shared array slots each iteration has read or written
    overtaken,                     \* history: an iteration has run before a lower one was done
    returned                       \* the returned pair, once the call has returned

odomVars == <<cloudPrev_, odomToRangeSensorCumulative_, odomToRangeSensorBuffer_,
              lastMeasurementTimestamp_, isMapInitializing_,
              scanToScanOdomTools_, mapInitializingOdomTools_, call>>

voxelVars == <<pc, voxel_size, bbox, cloud_points_, output_points_>>

downVars == <<pclVoxelSize, pcl, pclSizes>>

distVars == <<reference_points_, kdtree, idsInReference, distances, indices, iter,
              accesses, overtaken, returned>>

helperVars == <<voxelVars, downVars, distVars>>

vars == <<odomVars, prevCall, returnedTrue, helperVars>>

----------------------------------------------------------------------------
(* Bounds *)

MaxTime == 1
MaxFitness == 2
MaxBuffer == 3
MaxCoord == 1
MaxCloudLen == 3
MaxVoxelSize == 2
MaxGridCoord == 2
MaxPasses == 2
MaxIds == 2

Timestamps == 0..MaxTime
NoTime == 0 - 1
Fitnesses == 0..MaxFitness
NoFitness == 0 - 1

Points == {"p", "q"}
Clouds == {{}, {"p"}, {"p", "q"}}
IsEmpty(cloud) == cloud = {}

----------------------------------------------------------------------------
(* Rigid transforms: the group D3 *)

Identity == <<1, 2, 3>>
RotZ == <<2, 3, 1>>
FlipX == <<2, 1, 3>>

Mul(a, b) == [i \in 1..3 |-> a[b[i]]]
Inverse(a) == [i \in 1..3 |-> CHOOSE j \in 1..3 : a[j] = i]

RegistrationTransforms == {RotZ, FlipX}
InitialTransforms == {Identity, RotZ}

----------------------------------------------------------------------------
(* Tool sets *)

\* OdometryToolsParameters values: default-constructed, and two configurations
\* whose fitness thresholds differ.
ParamsDefault == [icpObjective_ |-> "PointToPoint", maxNumIter_ |-> 0,
                  cropperName_ |-> "", minAcceptableFitness_ |-> 0]
ParamsA == [icpObjective_ |-> "PointToPoint", maxNumIter_ |-> 1,
            cropperName_ |-> "MaxRadius", minAcceptableFitness_ |-> 1]
ParamsB == [icpObjective_ |-> "PointToPlane", maxNumIter_ |-> 2,
            cropperName_ |-> "Cylinder", minAcceptableFitness_ |-> 0]

\* OdometryParameters values handed to LidarOdometry::setParameters
OdometryParameters ==
    {[isMapInitializing_ |-> TRUE, scanToScanToolsParams_ |-> ParamsA,
      mapInitializingToolsParams_ |-> ParamsB],
     [isMapInitializing_ |-> FALSE, scanToScanToolsParams_ |-> ParamsB,
      mapInitializingToolsParams_ |-> ParamsA]}

\* LidarOdometry::LidarOdometry(): the objective and the cropper of a tool set
\* are built, its parameters and seed transform keep their initial value.
ConstructedTools ==
    [params_ |-> ParamsDefault, max_iteration_ |-> 30, icpObjective_ |-> "PointToPlane",
     cropper_ |-> "CroppingVolume", icpTransform_ |-> Identity]

\* LidarOdometryTools::setParameters
Tools_setParameters(tools, p) ==
    [tools EXCEPT !.params_ = p,
                  !.max_iteration_ = p.maxNumIter_,
                  !.icpObjective_ = p.icpObjective_,
                  !.cropper_ = p.cropperName_]

----------------------------------------------------------------------------
(* addRangeScan *)

\* TransformInterpolationBuffer: push appends a timestamped pose, empty and
\* size report the occupancy
push(buffer, time, tf) == Append(buffer, <<time, tf>>)
empty(buffer) == Len(buffer) = 0

NoCall == [op |-> "none", timestamp |-> NoTime, cloud |-> {}, pre |-> {},
           fitness |-> NoFitness, transformation |-> Identity, ret |-> FALSE]

ScanCall(cloud, timestamp, pre, fitness, transformation, ret) ==
    [op |-> "addRangeScan", timestamp |-> timestamp, cloud |-> cloud, pre |-> pre,
     fitness |-> fitness, transformation |-> transformation, ret |-> ret]

Record(c) == call' = c

\* line 49: the tool set of the current mode
ActiveTools == IF isMapInitializing_ THEN mapInitializingOdomTools_ ELSE scanToScanOdomTools_

\* line 43
IsOutOfOrder(timestamp) == timestamp < lastMeasurementTimestamp_

\* variant: a fitness equal to the threshold is accepted
IsOdomOkayNonStrict(fitness, tools) == fitness >= tools.params_.minAcceptableFitness_

\* line 65
IsOdomOkay(fitness, tools) == fitness > tools.params_.minAcceptableFitness_

\* variant: the inverse is multiplied from the left
ComposeCumulativeLeft(cumulative, transformation) == Mul(Inverse(transformation), cumulative)

\* line 86
ComposeCumulative(cumulative, transformation) == Mul(cumulative, Inverse(transformation))

\* variant: the first scan is stored without recording its timestamp
FirstScanNoTimestamp(cloud, timestamp) ==
    /\ Len(odomToRangeSensorBuffer_) < MaxBuffer
    /\ cloudPrev_' = cloud
    /\ odomToRangeSensorBuffer_' =
          push(odomToRangeSensorBuffer_, timestamp, odomToRangeSensorCumulative_)
    /\ UNCHANGED <<odomToRangeSensorCumulative_, isMapInitializing_, lastMeasurementTimestamp_,
                   scanToScanOdomTools_, mapInitializingOdomTools_>>
    /\ Record(ScanCall(cloud, timestamp, {}, NoFitness, Identity, TRUE))

\* lines 36-41
FirstScan(cloud, timestamp) ==
    /\ Len(odomToRangeSensorBuffer_) < MaxBuffer
    /\ cloudPrev_' = cloud
    /\ odomToRangeSensorBuffer_' =
          push(odomToRangeSensorBuffer_, timestamp, odomToRangeSensorCumulative_)
    /\ lastMeasurementTimestamp_' = timestamp
    /\ UNCHANGED <<odomToRangeSensorCumulative_, isMapInitializing_,
                   scanToScanOdomTools_, mapInitializingOdomTools_>>
    /\ Record(ScanCall(cloud, timestamp, {}, NoFitness, Identity, TRUE))

\* variant: a dropped out-of-order scan is reported as processed
OutOfOrderScanReturnsTrue(cloud, timestamp) ==
    /\ UNCHANGED <<cloudPrev_, odomToRangeSensorCumulative_, odomToRangeSensorBuffer_,
                   lastMeasurementTimestamp_, isMapInitializing_,
                   scanToScanOdomTools_, mapInitializingOdomTools_>>
    /\ Record(ScanCall(cloud, timestamp, {}, NoFitness, Identity, TRUE))

\* lines 43-46
OutOfOrderScan(cloud, timestamp) ==
    /\ UNCHANGED <<cloudPrev_, odomToRangeSensorCumulative_, odomToRangeSensorBuffer_,
                   lastMeasurementTimestamp_, isMapInitializing_,
                   scanToScanOdomTools_, mapInitializingOdomTools_>>
    /\ Record(ScanCall(cloud, timestamp, {}, NoFitness, Identity, FALSE))

\* variant: a rejected scan replaces the reference even when it is empty
RejectScanAlwaysReplace(cloud, timestamp, pre, fitness) ==
    /\ cloudPrev_' = pre
    /\ UNCHANGED <<odomToRangeSensorCumulative_, odomToRangeSensorBuffer_,
                   lastMeasurementTimestamp_, isMapInitializing_,
                   scanToScanOdomTools_, mapInitializingOdomTools_>>
    /\ Record(ScanCall(cloud, timestamp, pre, fitness, Identity, FALSE))

\* lines 66-80
RejectScan(cloud, timestamp, pre, fitness) ==
    /\ cloudPrev_' = IF ~IsEmpty(pre) THEN pre ELSE cloudPrev_
    /\ UNCHANGED <<odomToRangeSensorCumulative_, odomToRangeSensorBuffer_,
                   lastMeasurementTimestamp_, isMapInitializing_,
                   scanToScanOdomTools_, mapInitializingOdomTools_>>
    /\ Record(ScanCall(cloud, timestamp, pre, fitness, Identity, FALSE))

\* variant: an accepted scan does not leave the map-initializing mode
AcceptScanKeepMode(cloud, timestamp, pre, fitness, transformation) ==
    /\ Len(odomToRangeSensorBuffer_) < MaxBuffer
    /\ odomToRangeSensorCumulative_' =
          ComposeCumulative(odomToRangeSensorCumulative_, transformation)
    /\ cloudPrev_' = pre
    /\ odomToRangeSensorBuffer_' =
          push(odomToRangeSensorBuffer_, timestamp, odomToRangeSensorCumulative_')
    /\ lastMeasurementTimestamp_' = timestamp
    /\ UNCHANGED <<isMapInitializing_, scanToScanOdomTools_, mapInitializingOdomTools_>>
    /\ Record(ScanCall(cloud, timestamp, pre, fitness, transformation, TRUE))

\* variant: an accepted scan does not advance the last-processed timestamp
AcceptScanStaleTimestamp(cloud, timestamp, pre, fitness, transformation) ==
    /\ Len(odomToRangeSensorBuffer_) < MaxBuffer
    /\ isMapInitializing_' = IF isMapInitializing_ THEN FALSE ELSE isMapInitializing_
    /\ odomToRangeSensorCumulative_' =
          ComposeCumulative(odomToRangeSensorCumulative_, transformation)
    /\ cloudPrev_' = pre
    /\ odomToRangeSensorBuffer_' =
          push(odomToRangeSensorBuffer_, timestamp, odomToRangeSensorCumulative_')
    /\ UNCHANGED <<lastMeasurementTimestamp_, scanToScanOdomTools_, mapInitializingOdomTools_>>
    /\ Record(ScanCall(cloud, timestamp, pre, fitness, transformation, TRUE))

\* variant: the pose is pushed before the cumulative transform is composed
AcceptScanPushBeforeCompose(cloud, timestamp, pre, fitness, transformation) ==
    /\ Len(odomToRangeSensorBuffer_) < MaxBuffer
    /\ isMapInitializing_' = IF isMapInitializing_ THEN FALSE ELSE isMapInitializing_
    /\ odomToRangeSensorCumulative_' =
          ComposeCumulative(odomToRangeSensorCumulative_, transformation)
    /\ cloudPrev_' = pre
    /\ odomToRangeSensorBuffer_' =
          push(odomToRangeSensorBuffer_, timestamp, odomToRangeSensorCumulative_)
    /\ lastMeasurementTimestamp_' = timestamp
    /\ UNCHANGED <<scanToScanOdomTools_, mapInitializingOdomTools_>>
    /\ Record(ScanCall(cloud, timestamp, pre, fitness, transformation, TRUE))

\* lines 82-90
AcceptScan(cloud, timestamp, pre, fitness, transformation) ==
    /\ Len(odomToRangeSensorBuffer_) < MaxBuffer
    /\ isMapInitializing_' = IF isMapInitializing_ THEN FALSE ELSE isMapInitializing_
    /\ odomToRangeSensorCumulative_' =
          ComposeCumulative(odomToRangeSensorCumulative_, transformation)
    /\ cloudPrev_' = pre
    /\ odomToRangeSensorBuffer_' =
          push(odomToRangeSensorBuffer_, timestamp, odomToRangeSensorCumulative_')
    /\ lastMeasurementTimestamp_' = timestamp
    /\ UNCHANGED <<scanToScanOdomTools_, mapInitializingOdomTools_>>
    /\ Record(ScanCall(cloud, timestamp, pre, fitness, transformation, TRUE))

\* What lines 50-58 (crop, voxelize, RandomDownSample, estimateNormals) can
\* produce for a cloud, and what fitness lines 60-62 can report for it.
Preprocessed(cloud) == {pre \in Clouds : Cardinality(pre) <= Cardinality(cloud)}
RegistrationFitness(pre) == IF IsEmpty(pre) THEN {0} ELSE Fitnesses

\* LidarOdometry::addRangeScan, lines 35-91
addRangeScan(cloud, timestamp) ==
    IF IsEmpty(cloudPrev_)
      THEN FirstScan(cloud, timestamp)
      ELSE IF IsOutOfOrder(timestamp)
        THEN OutOfOrderScan(cloud, timestamp)
        ELSE \E pre \in Preprocessed(cloud) :
               \E fitness \in RegistrationFitness(pre) :
                 IF ~IsOdomOkay(fitness, ActiveTools)
                   THEN RejectScan(cloud, timestamp, pre, fitness)
                   ELSE \E transformation \in RegistrationTransforms :
                          AcceptScan(cloud, timestamp, pre, fitness, transformation)

AddRangeScanCall == \E cloud \in Clouds, timestamp \in Timestamps : addRangeScan(cloud, timestamp)

----------------------------------------------------------------------------
(* configuration *)

ConfigCall(name) == [NoCall EXCEPT !.op = name]

\* variant: the map-initializing tool set is reconfigured whatever the mode
setParametersBoth(p) ==
    /\ isMapInitializing_' = p.isMapInitializing_
    /\ scanToScanOdomTools_' = Tools_setParameters(scanToScanOdomTools_, p.scanToScanToolsParams_)
    /\ mapInitializingOdomTools_' =
          Tools_setParameters(mapInitializingOdomTools_, p.mapInitializingToolsParams_)
    /\ UNCHANGED <<cloudPrev_, odomToRangeSensorCumulative_, odomToRangeSensorBuffer_,
                   lastMeasurementTimestamp_>>
    /\ Record(ConfigCall("setParameters"))

\* LidarOdometry::setParameters, lines 108-114
setParameters(p) ==
    /\ isMapInitializing_' = p.isMapInitializing_
    /\ scanToScanOdomTools_' = Tools_setParameters(scanToScanOdomTools_, p.scanToScanToolsParams_)
    /\ mapInitializingOdomTools_' =
          IF p.isMapInitializing_
            THEN Tools_setParameters(mapInitializingOdomTools_, p.mapInitializingToolsParams_)
            ELSE mapInitializingOdomTools_
    /\ UNCHANGED <<cloudPrev_, odomToRangeSensorCumulative_, odomToRangeSensorBuffer_,
                   lastMeasurementTimestamp_>>
    /\ Record(ConfigCall("setParameters"))

\* LidarOdometry::setInitialTransform, lines 116-118
setInitialTransform(initialTransform) ==
    /\ mapInitializingOdomTools_' =
          [mapInitializingOdomTools_ EXCEPT !.icpTransform_ = initialTransform]
    /\ UNCHANGED <<cloudPrev_, odomToRangeSensorCumulative_, odomToRangeSensorBuffer_,
                   lastMeasurementTimestamp_, isMapInitializing_, scanToScanOdomTools_>>
    /\ Record(ConfigCall("setInitialTransform"))

\* lines 104-106
hasProcessedMeasurements == ~empty(odomToRangeSensorBuffer_)

SetParametersCall == \E p \in OdometryParameters : setParameters(p)
SetInitialTransformCall == \E t \in InitialTransforms : setInitialTransform(t)

----------------------------------------------------------------------------

\* The object after LidarOdometry::LidarOdometry().  The member initialisers
\* are declared in Odometry.hpp: the cumulative transform starts as the
\* identity, the timestamp at the start of time, and the mode flag is taken in
\* both values (setParameters sets it to either).
OdomInit ==
    /\ cloudPrev_ = {}
    /\ odomToRangeSensorCumulative_ = Identity
    /\ odomToRangeSensorBuffer_ = <<>>
    /\ lastMeasurementTimestamp_ = 0
    /\ isMapInitializing_ \in BOOLEAN
    /\ scanToScanOdomTools_ = ConstructedTools
    /\ mapInitializingOdomTools_ = ConstructedTools
    /\ call = NoCall
    /\ prevCall = NoTime
    /\ returnedTrue = 0

VoxelIdle ==
    /\ pc = "idle"
    /\ voxel_size = 0
    /\ bbox = [min_bound_ |-> <<0, 0>>, max_bound_ |-> <<0, 0>>]
    /\ cloud_points_ = <<>>
    /\ output_points_ = <<>>

DownIdle ==
    /\ pclVoxelSize = 0
    /\ pcl = <<>>
    /\ pclSizes = <<>>

DistIdle ==
    /\ reference_points_ = <<>>
    /\ kdtree = [data |-> {}, emptyResult |-> 0]
    /\ idsInReference = <<>>
    /\ distances = <<>>
    /\ indices = <<>>
    /\ iter = <<>>
    /\ accesses = {}
    /\ overtaken = FALSE
    /\ returned = <<>>

HelpersIdle == VoxelIdle /\ DownIdle /\ DistIdle

Init == OdomInit /\ HelpersIdle

\* history: one more call has returned true when the step is an addRangeScan
\* that returns true
CountTrue ==
    returnedTrue' = returnedTrue + (IF call'.op = "addRangeScan" /\ call'.ret THEN 1 ELSE 0)

Next ==
    \/ AddRangeScanCall /\ CountTrue /\ UNCHANGED <<prevCall, helperVars>>
    \/ SetParametersCall /\ CountTrue /\ UNCHANGED <<prevCall, helperVars>>
    \/ SetInitialTransformCall /\ CountTrue /\ UNCHANGED <<prevCall, helperVars>>

Spec == Init /\ [][Next]_vars

\* The same machine with the timestamp of the call before the last recorded.
RecordPrev == prevCall' = IF call.op = "addRangeScan" THEN call.timestamp ELSE NoTime

NextHist ==
    \/ AddRangeScanCall /\ CountTrue /\ RecordPrev /\ UNCHANGED helperVars
    \/ SetParametersCall /\ CountTrue /\ RecordPrev /\ UNCHANGED helperVars
    \/ SetInitialTransformCall /\ CountTrue /\ RecordPrev /\ UNCHANGED helperVars

SpecHist == Init /\ [][NextHist]_vars

----------------------------------------------------------------------------
(* voxelizeAroundPosition (helpers.cpp).  Points are vectors of two          *)
(* coordinates; a coordinate is an exact multiple of 1/Scale, so that the    *)
(* mean of up to MaxCloudLen points is again a coordinate, MaxPasses times    *)
(* over.  The                                                                *)
(* normals_ and colors_ arrays follow points_ index for index and are left   *)
(* out.                                                                      *)

RECURSIVE Lcm1To(_)
Gcd(a, b) == CHOOSE g \in 1..a : a % g = 0 /\ b % g = 0 /\
                 \A h \in 1..a : (a % h = 0 /\ b % h = 0) => h <= g
Lcm1To(n) == IF n <= 1 THEN 1 ELSE (Lcm1To(n - 1) * n) \div Gcd(Lcm1To(n - 1), n)
RECURSIVE Pow(_, _)
Pow(b, e) == IF e = 0 THEN 1 ELSE b * Pow(b, e - 1)
Scale == Pow(Lcm1To(MaxCloudLen), MaxPasses)

IntMax == 2147483647

Coords == {c * Scale : c \in 0..MaxCoord}
InputPoints == Coords \X Coords
VoxelSizes == {v * Scale : v \in 0..MaxVoxelSize}
InputClouds == UNION {[1..n -> InputPoints] : n \in 0..MaxCloudLen}
BBoxes == {[min_bound_ |-> <<0, 0>>, max_bound_ |-> <<0, Scale>>],
           [min_bound_ |-> <<0, 0>>, max_bound_ |-> <<Scale, 0>>],
           [min_bound_ |-> <<Scale, Scale>>, max_bound_ |-> <<Scale, Scale>>],
           [min_bound_ |-> <<0, 0>>, max_bound_ |-> <<MaxCoord * Scale, MaxCoord * Scale>>]}

Min(S) == CHOOSE x \in S : \A y \in S : x <= y
Max(S) == CHOOSE x \in S : \A y \in S : y <= x

\* computeVoxelBounds: the grid is anchored at the bounding-box minimum of the cloud
computeVoxelBounds(points) ==
    IF points = <<>>
      THEN <<<<0, 0>>, <<0, 0>>>>
      ELSE << <<Min({points[i][1] : i \in DOMAIN points}), Min({points[i][2] : i \in DOMAIN points})>>,
              <<Max({points[i][1] : i \in DOMAIN points}), Max({points[i][2] : i \in DOMAIN points})>> >>

\* getVoxelIdx: integer-floor quantization by the voxel size
getVoxelIdx(p, voxelSize, voxelMinBound) ==
    <<(p[1] - voxelMinBound[1]) \div voxelSize, (p[2] - voxelMinBound[2]) \div voxelSize>>

\* line 160: size * INT_MAX < extent, for size > 0, computed without leaving
\* the integer range
IndexOverflows(size, extent) ==
    \/ extent \div size > IntMax
    \/ extent \div size = IntMax /\ extent % size > 0

\* variant: points on the upper faces of the box count as outside
isInsideStrict(box, p) ==
    /\ p[1] < box.max_bound_[1] /\ p[2] < box.max_bound_[2]
    /\ p[1] >= box.min_bound_[1] /\ p[2] >= box.min_bound_[2]

\* lines 141-144
isInside(box, p) ==
    /\ p[1] <= box.max_bound_[1] /\ p[2] <= box.max_bound_[2]
    /\ p[1] >= box.min_bound_[1] /\ p[2] >= box.min_bound_[2]

\* AccumulatedPoint, lines 28-67
AccumulatedPoint == [num_of_points_ |-> 0, point_ |-> <<0, 0>>]

AddPoint(acc, p) ==
    [num_of_points_ |-> acc.num_of_points_ + 1,
     point_ |-> <<acc.point_[1] + p[1], acc.point_[2] + p[2]>>]

GetAveragePoint(acc) ==
    <<acc.point_[1] \div acc.num_of_points_, acc.point_[2] \div acc.num_of_points_>>

\* variant: the else of line 188 is missing, a point inside the box is passed
\* through as well
RECURSIVE AccumulateLoopPassAll(_, _, _, _, _, _, _)
AccumulateLoopPassAll(size, voxelMinBound, box, points, i, out, map) ==
    IF i > Len(points)
      THEN [out |-> out, voxelindex_to_accpoint |-> map]
      ELSE LET p == points[i]
               voxelIdx == getVoxelIdx(p, size, voxelMinBound)
           IN  IF isInside(box, p)
                 THEN AccumulateLoopPassAll(size, voxelMinBound, box, points, i + 1,
                        Append(out, p),
                        [k \in DOMAIN map \cup {voxelIdx} |->
                            IF k = voxelIdx
                              THEN AddPoint(IF voxelIdx \in DOMAIN map THEN map[voxelIdx]
                                                                      ELSE AccumulatedPoint, p)
                              ELSE map[k]])
                 ELSE AccumulateLoopPassAll(size, voxelMinBound, box, points, i + 1,
                                            Append(out, p), map)

\* lines 178-191: the loop from point i on, given the pass-through output and
\* the map voxelindex_to_accpoint built so far
RECURSIVE AccumulateLoop(_, _, _, _, _, _, _)
AccumulateLoop(size, voxelMinBound, box, points, i, out, map) ==
    IF i > Len(points)
      THEN [out |-> out, voxelindex_to_accpoint |-> map]
      ELSE LET p == points[i]
               voxelIdx == getVoxelIdx(p, size, voxelMinBound)
           IN  IF isInside(box, p)
                 THEN AccumulateLoop(size, voxelMinBound, box, points, i + 1, out,
                        [k \in DOMAIN map \cup {voxelIdx} |->
                            IF k = voxelIdx
                              THEN AddPoint(IF voxelIdx \in DOMAIN map THEN map[voxelIdx]
                                                                      ELSE AccumulatedPoint, p)
                              ELSE map[k]])
                 ELSE AccumulateLoop(size, voxelMinBound, box, points, i + 1,
                                     Append(out, p), map)

\* the orders in which the unordered_map of line 163 can be traversed (line 193)
RECURSIVE Traversals(_)
Traversals(keys) ==
    IF keys = {} THEN {<<>>}
    ELSE UNION {{<<k>> \o rest : rest \in Traversals(keys \ {k})} : k \in keys}

\* voxelizeAroundPosition, lines 146-204
voxelizeAroundPosition ==
    /\ pc = "called"
    /\ IF voxel_size <= 0
         THEN /\ output_points_' = cloud_points_
              /\ pc' = "returned"
         ELSE LET voxelBounds == computeVoxelBounds(cloud_points_)
                  extent == Max({voxelBounds[2][1] - voxelBounds[1][1],
                                 voxelBounds[2][2] - voxelBounds[1][2]})
              IN  IF IndexOverflows(voxel_size, extent)
                    THEN /\ output_points_' = <<>>
                         /\ pc' = "thrown"
                    ELSE LET done == AccumulateLoop(voxel_size, voxelBounds[1], bbox,
                                                    cloud_points_, 1, <<>>, <<>>)
                             map == done.voxelindex_to_accpoint
                         IN  \E ord \in Traversals(DOMAIN map) :
                               /\ output_points_' =
                                     done.out \o [k \in DOMAIN ord |-> GetAveragePoint(map[ord[k]])]
                               /\ pc' = "returned"
    /\ UNCHANGED <<voxel_size, bbox, cloud_points_>>

VoxelInit ==
    /\ pc = "called"
    /\ voxel_size \in VoxelSizes
    /\ bbox \in BBoxes
    /\ cloud_points_ \in InputClouds
    /\ output_points_ = <<>>

OdomIdle ==
    /\ cloudPrev_ = {}
    /\ odomToRangeSensorCumulative_ = Identity
    /\ odomToRangeSensorBuffer_ = <<>>
    /\ lastMeasurementTimestamp_ = 0
    /\ isMapInitializing_ = FALSE
    /\ scanToScanOdomTools_ = ConstructedTools
    /\ mapInitializingOdomTools_ = ConstructedTools
    /\ call = NoCall
    /\ prevCall = NoTime
    /\ returnedTrue = 0

InitVoxel == OdomIdle /\ VoxelInit /\ DownIdle /\ DistIdle

NextVoxel ==
    voxelizeAroundPosition /\ UNCHANGED <<odomVars, prevCall, returnedTrue, downVars, distVars>>

SpecVoxel == InitVoxel /\ [][NextVoxel]_vars

----------------------------------------------------------------------------
(* voxelize (helpers.cpp), applied repeatedly to its own output *)

\* what voxelizeAroundPosition (lines 146-204) can return for its arguments:
\* one output per traversal order of the map, none when it throws
voxelizeAroundPositionReturns(size, box, points) ==
    IF size <= 0
      THEN {points}
      ELSE LET voxelBounds == computeVoxelBounds(points)
               extent == Max({voxelBounds[2][1] - voxelBounds[1][1],
                              voxelBounds[2][2] - voxelBounds[1][2]})
           IN  IF IndexOverflows(size, extent)
                 THEN {}
                 ELSE LET done == AccumulateLoop(size, voxelBounds[1], box, points, 1, <<>>, <<>>)
                          map == done.voxelindex_to_accpoint
                      IN  {done.out \o [k \in DOMAIN ord |-> GetAveragePoint(map[ord[k]])] :
                              ord \in Traversals(DOMAIN map)}

\* VoxelDownSample of the geometry library: the grid is anchored at the
\* bounding-box minimum of the cloud and every occupied voxel yields the mean
\* of its points, which is voxelizeAroundPosition with a box that holds the
\* whole cloud
VoxelDownSample(size, points) ==
    LET bounds == computeVoxelBounds(points)
    IN  voxelizeAroundPositionReturns(size, [min_bound_ |-> bounds[1], max_bound_ |-> bounds[2]],
                                      points)

\* voxelize, lines 133-139
voxelize ==
    /\ Len(pclSizes) <= MaxPasses
    /\ IF pclVoxelSize <= 0
         THEN pcl' = pcl
         ELSE pcl' \in VoxelDownSample(pclVoxelSize, pcl)
    /\ pclSizes' = Append(pclSizes, Len(pcl'))
    /\ UNCHANGED pclVoxelSize

GridPoints == {<<c * Scale, d * Scale>> : c \in 0..MaxGridCoord, d \in {0, 1}}
GridClouds == UNION {[1..n -> GridPoints] : n \in 0..MaxCloudLen}

DownInit ==
    /\ pclVoxelSize \in VoxelSizes
    /\ pcl \in GridClouds
    /\ pclSizes = <<Len(pcl)>>

InitDown == OdomIdle /\ VoxelIdle /\ DownInit /\ DistIdle

NextDown == voxelize /\ UNCHANGED <<odomVars, prevCall, returnedTrue, voxelVars, distVars>>

SpecDown == InitDown /\ [][NextDown]_vars

----------------------------------------------------------------------------
(* computePointCloudDistance (helpers.cpp).  Points lie on a line, so that   *)
(* the square root of a squared distance is exact.  The iterations of the    *)
(* parallel for are interleaved step by step; idsInReference, distances,     *)
(* indices and iter are indexed from 0 as in the source.  The ids are far    *)
(* below the range of int, so the narrowing of line 223 keeps them.          *)

LineCoords == 0..MaxCoord

\* KDTreeFlann::SearchKNN with knn = 1: the number of neighbours found and the
\* squared distance of the nearest; on an empty tree the result code is the
\* tree's emptyResult and dists keeps its initial value
SearchKNN(query, tree) ==
    IF tree.data = {}
      THEN [k |-> tree.emptyResult, dist2 |-> 0]
      ELSE [k |-> 1, dist2 |-> Min({(query - c) * (query - c) : c \in tree.data})]

\* std::sqrt, exact on the squares that occur
Sqrt(x) == CHOOSE r \in 0..x : r * r <= x /\ (r + 1) * (r + 1) > x

\* lines 221-227: the values the body stores
BodyDistance(k, dist2) == IF k # 0 THEN Sqrt(dist2) ELSE 0 - 1
BodyIndex(k, idx) == IF k # 0 THEN idx ELSE 0 - 1

NoLocal == [pc |-> "start", idx |-> 0, k |-> 0, dist2 |-> 0]

Access(i, kind, array, slot) == [iter |-> i, kind |-> kind, array |-> array, slot |-> slot]

Overtake(i) == overtaken' = (overtaken \/ \E j \in DOMAIN iter : j < i /\ iter[j].pc # "done")

\* lines 216-220 of iteration i
Search(i) ==
    /\ iter[i].pc = "start"
    /\ LET idx == idsInReference[i]
           found == SearchKNN(reference_points_[idx + 1], kdtree)
       IN  /\ iter' = [iter EXCEPT ![i] = [pc |-> "searched", idx |-> idx,
                                           k |-> found.k, dist2 |-> found.dist2]]
           /\ accesses' = accesses \cup {Access(i, "read", "idsInReference", i),
                                         Access(i, "read", "reference.points_", idx),
                                         Access(i, "read", "kdtree", 0)}
    /\ Overtake(i)
    /\ UNCHANGED <<reference_points_, kdtree, idsInReference, distances, indices, returned>>

\* variant: the distance is stored at the slot of the reference id
WriteDistanceAtIdx(i) ==
    /\ iter[i].pc = "searched"
    /\ distances' = [distances EXCEPT ![iter[i].idx] = BodyDistance(iter[i].k, iter[i].dist2)]
    /\ iter' = [iter EXCEPT ![i].pc = "wroteDistance"]
    /\ accesses' = accesses \cup {Access(i, "write", "distances", iter[i].idx)}
    /\ Overtake(i)
    /\ UNCHANGED <<reference_points_, kdtree, idsInReference, indices, returned>>

\* lines 222 and 225 of iteration i
WriteDistance(i) ==
    /\ iter[i].pc = "searched"
    /\ distances' = [distances EXCEPT ![i] = BodyDistance(iter[i].k, iter[i].dist2)]
    /\ iter' = [iter EXCEPT ![i].pc = "wroteDistance"]
    /\ accesses' = accesses \cup {Access(i, "write", "distances", i)}
    /\ Overtake(i)
    /\ UNCHANGED <<reference_points_, kdtree, idsInReference, indices, returned>>

\* lines 223 and 226 of iteration i
WriteIndex(i) ==
    /\ iter[i].pc = "wroteDistance"
    /\ indices' = [indices EXCEPT ![i] = BodyIndex(iter[i].k, iter[i].idx)]
    /\ iter' = [iter EXCEPT ![i].pc = "done"]
    /\ accesses' = accesses \cup {Access(i, "write", "indices", i)}
    /\ Overtake(i)
    /\ UNCHANGED <<reference_points_, kdtree, idsInReference, distances, returned>>

\* lines 232-242: copy_if of the entries that are >= 0, in slot order
IsFound(x) == x >= 0
CopyIfFound(array) ==
    SelectSeq([n \in 1..Cardinality(DOMAIN array) |-> array[n - 1]], IsFound)

\* lines 231-242, after the loop has joined
ReturnDistances ==
    /\ returned = <<>>
    /\ \A i \in DOMAIN iter : iter[i].pc = "done"
    /\ returned' = <<CopyIfFound(distances), CopyIfFound(indices)>>
    /\ UNCHANGED <<reference_points_, kdtree, idsInReference, distances, indices, iter,
                   accesses, overtaken>>

\* lines 215-242 with the iterations run one after the other, from iteration
\* i on
RECURSIVE SequentialLoop(_, _, _)
SequentialLoop(i, dist, ind) ==
    IF i \notin DOMAIN idsInReference
      THEN <<CopyIfFound(dist), CopyIfFound(ind)>>
      ELSE LET idx == idsInReference[i]
               found == SearchKNN(reference_points_[idx + 1], kdtree)
           IN  SequentialLoop(i + 1,
                              [dist EXCEPT ![i] = BodyDistance(found.k, found.dist2)],
                              [ind EXCEPT ![i] = BodyIndex(found.k, idx)])

SearchStep == \E i \in DOMAIN iter : Search(i)
WriteDistanceStep == \E i \in DOMAIN iter : WriteDistance(i)
WriteIndexStep == \E i \in DOMAIN iter : WriteIndex(i)

\* lines 209-212: the arrays are value-initialised, the tree is built from
\* cloud; every id is an index of reference.points_
DistInit ==
    /\ reference_points_ \in [1..2 -> LineCoords]
    /\ kdtree \in {[data |-> d, emptyResult |-> e] : d \in SUBSET LineCoords, e \in {0, 0 - 1}}
    /\ kdtree.data # {} => kdtree.emptyResult = 0
    /\ idsInReference \in
          UNION {[0..(n - 1) -> 0..(Len(reference_points_) - 1)] : n \in 0..MaxIds}
    /\ distances = [i \in DOMAIN idsInReference |-> 0]
    /\ indices = [i \in DOMAIN idsInReference |-> 0]
    /\ iter = [i \in DOMAIN idsInReference |-> NoLocal]
    /\ accesses = {}
    /\ overtaken = FALSE
    /\ returned = <<>>

InitDist == OdomIdle /\ VoxelIdle /\ DownIdle /\ DistInit

NextDist ==
    \/ SearchStep /\ UNCHANGED <<odomVars, prevCall, returnedTrue, voxelVars, downVars>>
    \/ WriteDistanceStep /\ UNCHANGED <<odomVars, prevCall, returnedTrue, voxelVars, downVars>>
    \/ WriteIndexStep /\ UNCHANGED <<odomVars, prevCall, returnedTrue, voxelVars, downVars>>
    \/ ReturnDistances /\ UNCHANGED <<odomVars, prevCall, returnedTrue, voxelVars, downVars>>

SpecDist == InitDist /\ [][NextDist]_vars

----------------------------------------------------------------------------
(* Properties of addRangeScan.  A step of the machine is a call; call' holds *)
(* the inputs and the return value of the call the step makes.              *)

IsScanStep == call'.op = "addRangeScan"

\* the threshold of the tool set of the mode the call starts in
ModeThreshold ==
    IF isMapInitializing_ THEN mapInitializingOdomTools_.params_.minAcceptableFitness_
                          ELSE scanToScanOdomTools_.params_.minAcceptableFitness_

\* the call reaches registration: there is a reference cloud and the scan is in order
ReachesRegistration ==
    /\ IsScanStep
    /\ ~IsEmpty(cloudPrev_)
    /\ call'.timestamp >= lastMeasurementTimestamp_

OdometryFrame ==
    /\ odomToRangeSensorCumulative_' = odomToRangeSensorCumulative_
    /\ odomToRangeSensorBuffer_' = odomToRangeSensorBuffer_
    /\ lastMeasurementTimestamp_' = lastMeasurementTimestamp_
    /\ isMapInitializing_' = isMapInitializing_

\* C1: the first-ever call, made with a non-empty cloud at t0, returns true
\* without preprocessing or registration; afterwards the reference is the raw
\* cloud, the buffer is the single entry (t0, initial cumulative transform)
\* and the last-processed timestamp is t0.
C1_FirstScanStored ==
    [][(IsScanStep /\ odomToRangeSensorBuffer_ = <<>> /\ ~IsEmpty(call'.cloud)) =>
          /\ call'.ret
          /\ call'.fitness = NoFitness
          /\ cloudPrev_' = call'.cloud
          /\ odomToRangeSensorCumulative_ = Identity
          /\ odomToRangeSensorCumulative_' = Identity
          /\ odomToRangeSensorBuffer_' = << <<call'.timestamp, Identity>> >>
          /\ lastMeasurementTimestamp_' = call'.timestamp]_vars

C1_Witness ==
    /\ call.op = "addRangeScan" /\ call.ret /\ call.fitness = NoFitness
    /\ call.cloud = {"p", "q"} /\ cloudPrev_ = {"p", "q"}
    /\ call.timestamp = MaxTime /\ lastMeasurementTimestamp_ = MaxTime
    /\ odomToRangeSensorBuffer_ = << <<MaxTime, Identity>> >>

\* C2: a call whose timestamp is strictly less than the last successfully
\* processed timestamp returns false and changes no odometry state.
C2_OutOfOrderRejected ==
    [][(IsScanStep /\ odomToRangeSensorBuffer_ # <<>>
          /\ call'.timestamp < lastMeasurementTimestamp_) =>
          /\ ~call'.ret
          /\ cloudPrev_' = cloudPrev_
          /\ OdometryFrame]_vars

\* the step is the third of three consecutive calls with timestamps t1, t2, t1,
\* t1 < t2: call is the second, which ran its registration, and prevCall the
\* timestamp of the first
ThirdOfThree ==
    /\ IsScanStep /\ call.op = "addRangeScan" /\ prevCall # NoTime
    /\ call.fitness # NoFitness
    /\ prevCall < call.timestamp
    /\ call'.timestamp = prevCall

\* C3 as stated: of three consecutive calls with timestamps t1, t2, t1, t1 < t2,
\* the third returns false and leaves the buffer size as the second left it,
\* whatever the outcome of the registration of the second.
C3_Original ==
    [][ThirdOfThree =>
          /\ ~call'.ret
          /\ Len(odomToRangeSensorBuffer_') = Len(odomToRangeSensorBuffer_)]_vars

\* C3 amended: the same, when the registration of the second call was accepted.
C3_AfterAcceptedSecond ==
    [][(ThirdOfThree /\ call.ret) =>
          /\ ~call'.ret
          /\ Len(odomToRangeSensorBuffer_') = Len(odomToRangeSensorBuffer_)]_vars

\* first scan at 0, a scan accepted by registration at MaxTime, then 0 again
C3_Witness ==
    /\ call.op = "addRangeScan" /\ ~call.ret /\ call.fitness = NoFitness
    /\ prevCall = MaxTime /\ call.timestamp = 0
    /\ lastMeasurementTimestamp_ = MaxTime
    /\ Len(odomToRangeSensorBuffer_) = 2
    /\ odomToRangeSensorBuffer_[1] = <<0, Identity>>
    /\ odomToRangeSensorBuffer_[2][1] = MaxTime
    /\ odomToRangeSensorBuffer_[2][2] # Identity

\* C4 as stated: in MapInitializing, a call that returns true switches the mode
\* to SteadyState.
C4_Original ==
    [][(IsScanStep /\ isMapInitializing_ /\ call'.ret) => ~isMapInitializing_']_vars

\* C4 amended: in MapInitializing, a call whose registration is accepted switches
\* the mode to SteadyState; every other addRangeScan call (the first scan, which
\* returns true without registration, a rejected or an out-of-order one, and any
\* call in SteadyState) leaves the mode as it is.
C4_ModeTransition ==
    [][IsScanStep =>
          IF isMapInitializing_ /\ call'.ret /\ call'.fitness # NoFitness
            THEN ~isMapInitializing_'
            ELSE isMapInitializing_' = isMapInitializing_]_vars

C4_Witness ==
    /\ call.op = "addRangeScan" /\ call.ret /\ call.fitness = 1
    /\ scanToScanOdomTools_.params_ = ParamsA
    /\ mapInitializingOdomTools_.params_ = ParamsB
    /\ ~isMapInitializing_

\* C5: a call that reaches registration returns true iff the fitness is strictly
\* greater than minAcceptableFitness of the tool set of the current mode.
C5_StrictFitness ==
    [][ReachesRegistration => (call'.ret <=> call'.fitness > ModeThreshold)]_vars

\* a fitness equal to the threshold of the active (steady-state) tool set, while
\* the other tool set would have accepted it
C5_Witness ==
    /\ call.op = "addRangeScan" /\ ~call.ret /\ call.fitness = 1
    /\ ~isMapInitializing_
    /\ scanToScanOdomTools_.params_.minAcceptableFitness_ = 1
    /\ mapInitializingOdomTools_.params_.minAcceptableFitness_ = 0

\* C6: a rejected registration returns false and leaves the cumulative transform,
\* the buffer, the last-processed timestamp and the mode unchanged; the reference
\* becomes the preprocessed cloud if that is non-empty and is kept otherwise.
C6_RejectionFrame ==
    [][(ReachesRegistration /\ ~(call'.fitness > ModeThreshold)) =>
          /\ ~call'.ret
          /\ OdometryFrame
          /\ cloudPrev_' = IF call'.pre # {} THEN call'.pre ELSE cloudPrev_]_vars

C6_Witness ==
    /\ call.op = "addRangeScan" /\ ~call.ret /\ call.fitness = 0
    /\ call.cloud = {"p", "q"} /\ call.pre = {}
    /\ cloudPrev_ = {"p"}

\* C7: an accepted registration right-multiplies the cumulative transform by the
\* inverse of the result, makes the preprocessed cloud the reference, appends
\* exactly (timestamp, new cumulative transform), records the timestamp and
\* returns true.
C7_AcceptanceEffect ==
    [][(ReachesRegistration /\ call'.fitness > ModeThreshold) =>
          /\ call'.ret
          /\ odomToRangeSensorCumulative_' =
                Mul(odomToRangeSensorCumulative_, Inverse(call'.transformation))
          /\ cloudPrev_' = call'.pre
          /\ odomToRangeSensorBuffer_' =
                Append(odomToRangeSensorBuffer_,
                       <<call'.timestamp, odomToRangeSensorCumulative_'>>)
          /\ lastMeasurementTimestamp_' = call'.timestamp]_vars

\* two accepted scans whose results do not commute: Inverse(RotZ) then Inverse(FlipX)
C7_Witness ==
    /\ call.op = "addRangeScan" /\ call.ret /\ call.transformation = FlipX
    /\ Len(odomToRangeSensorBuffer_) = 3
    /\ odomToRangeSensorBuffer_[2][2] = Inverse(RotZ)
    /\ odomToRangeSensorCumulative_ = Mul(Inverse(RotZ), FlipX)
    /\ odomToRangeSensorCumulative_ # Mul(FlipX, Inverse(RotZ))

\* C8: the timestamps of the buffer are non-decreasing in insertion order.
C8_BufferMonotone ==
    \A i, j \in 1..Len(odomToRangeSensorBuffer_) :
        i < j => odomToRangeSensorBuffer_[i][1] <= odomToRangeSensorBuffer_[j][1]

\* C9: setInitialTransform changes only the seed transform of the
\* map-initializing tool set; setParameters with isMapInitializing = false
\* reconfigures the steady-state tool set and leaves the map-initializing one
\* unchanged; addRangeScan changes neither tool set.
Configured(tools, old) ==
    /\ tools.params_ \in {p.scanToScanToolsParams_ : p \in OdometryParameters}
    /\ tools.max_iteration_ = tools.params_.maxNumIter_
    /\ tools.icpObjective_ = tools.params_.icpObjective_
    /\ tools.cropper_ = tools.params_.cropperName_
    /\ tools.icpTransform_ = old.icpTransform_

C9_ToolSetsIndependent ==
    [][/\ call'.op = "setInitialTransform" =>
            /\ scanToScanOdomTools_' = scanToScanOdomTools_
            /\ mapInitializingOdomTools_' =
                  [mapInitializingOdomTools_ EXCEPT
                      !.icpTransform_ = mapInitializingOdomTools_'.icpTransform_]
       /\ (call'.op = "setParameters" /\ ~isMapInitializing_') =>
            /\ mapInitializingOdomTools_' = mapInitializingOdomTools_
            /\ Configured(scanToScanOdomTools_', scanToScanOdomTools_)
       /\ IsScanStep =>
            /\ scanToScanOdomTools_' = scanToScanOdomTools_
            /\ mapInitializingOdomTools_' = mapInitializingOdomTools_]_vars

C9_Witness ==
    /\ call.op = "setParameters" /\ ~isMapInitializing_
    /\ scanToScanOdomTools_.params_ = ParamsB
    /\ mapInitializingOdomTools_.params_ = ParamsB
    /\ mapInitializingOdomTools_.icpTransform_ = RotZ
    /\ odomToRangeSensorBuffer_ # <<>>

----------------------------------------------------------------------------
(* Properties of voxelizeAroundPosition *)

InBox(p) ==
    /\ bbox.min_bound_[1] <= p[1] /\ p[1] <= bbox.max_bound_[1]
    /\ bbox.min_bound_[2] <= p[2] /\ p[2] <= bbox.max_bound_[2]

IsOutOfBox(p) == ~InBox(p)
OutOfBoxPoints == SelectSeq(cloud_points_, IsOutOfBox)

RECURSIVE SumOver(_, _)
SumOver(I, axis) ==
    IF I = {} THEN 0
    ELSE LET i == CHOOSE x \in I : TRUE
         IN  cloud_points_[i][axis] + SumOver(I \ {i}, axis)

\* q is the arithmetic mean of the points with indices I
IsMeanOf(q, I) ==
    /\ q[1] * Cardinality(I) = SumOver(I, 1)
    /\ q[2] * Cardinality(I) = SumOver(I, 2)

\* C10: with voxel_size > 0 the output is every out-of-box input point,
\* unmodified and in input order, followed by exactly one point per occupied
\* voxel, the arithmetic mean of the in-box points of that voxel; its size is
\* the number of out-of-box points plus the number of occupied voxels.
C10_VoxelizeAroundPosition ==
    (pc = "returned" /\ voxel_size > 0) =>
        LET anchor == computeVoxelBounds(cloud_points_)[1]
            inBox == {i \in DOMAIN cloud_points_ : InBox(cloud_points_[i])}
            voxelOf == [i \in inBox |-> getVoxelIdx(cloud_points_[i], voxel_size, anchor)]
            occupied == {voxelOf[i] : i \in inBox}
            members == [v \in occupied |-> {i \in inBox : voxelOf[i] = v}]
            n == Len(OutOfBoxPoints)
            m == Cardinality(occupied)
        IN  /\ Len(output_points_) = n + m
            /\ SubSeq(output_points_, 1, n) = OutOfBoxPoints
            /\ \A v \in occupied :
                 Cardinality({k \in 1..m : IsMeanOf(output_points_[n + k], members[v])}) = 1
            /\ \A k \in 1..m : \E v \in occupied : IsMeanOf(output_points_[n + k], members[v])

\* a point outside the box, a point on the upper face of the box, and a voxel
\* whose mean is none of its points
C10_Witness ==
    /\ pc = "returned" /\ voxel_size = 2 * Scale
    /\ bbox = [min_bound_ |-> <<0, 0>>, max_bound_ |-> <<0, Scale>>]
    /\ cloud_points_ = << <<Scale, 0>>, <<0, 0>>, <<0, Scale>> >>
    /\ output_points_ = << <<Scale, 0>>, <<0, Scale \div 2>> >>

----------------------------------------------------------------------------
\* C12: in every state the buffer holds as many entries as addRangeScan calls
\* have returned true, so hasProcessedMeasurements() is true exactly when at
\* least one call has returned true; and once true it is true after every
\* further step.
C12_BufferCountsTrueReturns ==
    /\ [](/\ Len(odomToRangeSensorBuffer_) = returnedTrue
          /\ hasProcessedMeasurements <=> returnedTrue >= 1)
    /\ [][hasProcessedMeasurements => hasProcessedMeasurements']_vars

\* two calls have returned true, and the last call returned false
C12_Witness ==
    /\ returnedTrue = 2
    /\ hasProcessedMeasurements
    /\ call.op = "addRangeScan"
    /\ ~call.ret

LastEntryMatches ==
    ~empty(odomToRangeSensorBuffer_) =>
        odomToRangeSensorBuffer_[Len(odomToRangeSensorBuffer_)] =
            <<lastMeasurementTimestamp_, odomToRangeSensorCumulative_>>

\* C13: in every state with a non-empty buffer the last entry is the pair
\* (last-processed timestamp, cumulative transform), and every step that
\* changes the cumulative transform appends the entry (new last-processed
\* timestamp, new cumulative transform) and nothing else.
C13_LastEntryTracksPose ==
    /\ []LastEntryMatches
    /\ [][odomToRangeSensorCumulative_' # odomToRangeSensorCumulative_ =>
             odomToRangeSensorBuffer_' =
                 Append(odomToRangeSensorBuffer_,
                        <<lastMeasurementTimestamp_', odomToRangeSensorCumulative_'>>)]_vars

\* an accepted scan has moved the cumulative transform away from the pose of
\* the entry before
C13_Witness ==
    /\ call.op = "addRangeScan"
    /\ call.ret
    /\ Len(odomToRangeSensorBuffer_) >= 2
    /\ odomToRangeSensorCumulative_ #
          odomToRangeSensorBuffer_[Len(odomToRangeSensorBuffer_) - 1][2]
    /\ LastEntryMatches

----------------------------------------------------------------------------
\* pcl is the output of voxelize with a positive voxel size and voxelize has
\* been applied to it again: pclSizes[k] is the size after the earlier call,
\* pclSizes[k + 1] the size after the later one
Redownsampled == {k \in 2..(Len(pclSizes) - 1) : pclVoxelSize > 0}

\* C11 as stated: downsampling an already downsampled cloud with the same
\* voxel size keeps the number of points.
C11_Original == \A k \in Redownsampled : pclSizes[k + 1] = pclSizes[k]

\* C11: downsampling an already downsampled cloud with the same voxel size
\* yields at most as many points as the cloud had.
C11_NoMorePoints == \A k \in Redownsampled : pclSizes[k + 1] <= pclSizes[k]

\* the second downsampling has merged two voxel means into one point
C11_Witness ==
    /\ pclVoxelSize > 0
    /\ Len(pclSizes) >= 3
    /\ pclSizes[2] = 2
    /\ pclSizes[3] = 1

----------------------------------------------------------------------------
\* C14: an iteration writes only its own slot of distances and of indices;
\* no slot of any array is accessed by two iterations unless both only read
\* it; and whatever the interleaving, the returned pair is the one the loop
\* run sequentially returns.
C14_IterationsIndependent ==
    /\ \A a \in accesses :
          a.kind = "write" => (a.array \in {"distances", "indices"} /\ a.slot = a.iter)
    /\ \A a, b \in accesses :
          (a.iter # b.iter /\ a.array = b.array /\ a.slot = b.slot) =>
              (a.kind = "read" /\ b.kind = "read")
    /\ returned # <<>> => returned = SequentialLoop(0, [i \in DOMAIN idsInReference |-> 0],
                                                     [i \in DOMAIN idsInReference |-> 0])

\* the call has returned two different distances after an iteration ran
\* before a lower one was done
C14_Witness ==
    /\ returned # <<>>
    /\ overtaken
    /\ Len(returned[1]) = 2
    /\ returned[1][1] # returned[1][2]

====
